---- MODULE Spec2Model ----
(***************************************************************************)
(* Grid-based path planning: brushfire distance transform, wavefront       *)
(* planner, greedy descent on the wavefront map and gradient descent on a  *)
(* potential field.  Every function of the library is a call that runs     *)
(* from its entry to a return or a raise; each loop iteration is one step. *)
(* Cells are (row, col) pairs, 0-based as in the source.                   *)
(***************************************************************************)
EXTENDS Integers, Sequences, FiniteSets, TLC

\* ---------------------------------------------------------------- bounds
\* Arrays have 1..MaxRows rows and 1..MaxCols columns (plus the shapes of the
\* documented scenarios), at most MaxObstacles occupied cells; potential
\* fields have values 0..MaxVal, all equal but for at most MaxPeaks cells.
MaxRows == 2
MaxCols == 2
MaxObstacles == 3
MaxVal == 2
MaxPeaks == 1
MaxIters == 2

\* ------------------------------------------------------------- constants
\* np.inf, as a value above every other value of a map (wavefront.py:55).
Inf == 2000000000
\* The "not yet reached" sentinel 1e9 of free cells (wavefront.py:57).
Unreached == 1000000000

VARIABLES
    pc,                 \* where the running call is: idle, a loop, returned, raised
    fn,                 \* the function being called
    err,                \* the exception raised, "none" otherwise
    shape,              \* <<rows, cols>> of the arrays of the call
    grid_map,           \* the occupancy grid passed in (0 free, 1 occupied)
    goal,               \* goal argument
    start,              \* start argument
    connectivity,       \* connectivity argument of the propagation call
    result,             \* the local array `result` of the propagation
    vis_map,            \* compute_wavefront's second return value
    queue,              \* the deque of the propagation
    field,              \* wavefront_map / total_potential passed to a descent
    path_connectivity,  \* connectivity argument of the descent call
    max_iters,          \* max_iters argument of gradient_descent_path
    current,            \* the local `current` of the descent
    trajectory,         \* trajectory_rows/trajectory_cols, zipped
    iters,              \* iterations of gradient_descent_path's for loop so far
    heap,               \* the arrays and lists that exist: object id -> contents
    args,               \* the arguments of a call seen from its caller
    saved,              \* the contents of the argument objects when the call began
    rets                \* the objects the call returned, in order

vars == <<pc, fn, err, shape, grid_map, goal, start, connectivity, result,
          vis_map, queue, field, path_connectivity, max_iters, current,
          trajectory, iters, heap, args, saved, rets>>

propagation_vars == <<grid_map, connectivity, result, vis_map, queue>>
descent_vars == <<field, start, path_connectivity, max_iters, current,
                  trajectory, iters>>
frame_vars == <<heap, args, saved, rets>>

\* ------------------------------------------------------------ the inputs
\* The shapes of the concrete scenarios of the documentation (3x3, 1x5).
ScenarioShapes == {<<3, 3>>, <<1, 5>>}

Shapes == ((1..MaxRows) \X (1..MaxCols)) \cup ScenarioShapes

\* The connectivity arguments tried: the two supported ones and another.
Connectivities == {4, 8, 6}

Cells(sh) == (0..(sh[1] - 1)) \X (0..(sh[2] - 1))

\* Occupancy grids of a shape: 0 = free, 1 = occupied.
Grids(sh) ==
    { [c \in Cells(sh) |-> IF c \in occ THEN 1 ELSE 0] :
        occ \in {s \in SUBSET Cells(sh) : Cardinality(s) <= MaxObstacles} }

\* Potential fields of a shape: one level everywhere, but for at most
\* MaxPeaks cells (peaks and pits).
Fields(sh) ==
    { f \in [Cells(sh) -> 0..MaxVal] :
        \E level \in 0..MaxVal :
            Cardinality({c \in Cells(sh) : f[c] # level}) <= MaxPeaks }

\* ------------------------------------------------------------- helpers
\* np.ndindex(shape): the cells in row-major order.
ndindex(sh) ==
    [k \in 1..(sh[1] * sh[2]) |-> <<(k - 1) \div sh[2], (k - 1) % sh[2]>>]

\* t + move, componentwise.
Step(t, move) == <<t[1] + move[1], t[2] + move[2]>>

\* ------------------------------------------------ brushfire (brushfire.py)
\* The 8-connectivity list with the last diagonal lost.
BrushfireMovesLostDiagonal(conn) ==
    IF conn = 4 THEN << <<-1, 0>>, <<0, -1>>, <<1, 0>>, <<0, 1>> >>
    ELSE IF conn = 8 THEN
        << <<-1, 0>>, <<-1, -1>>, <<0, -1>>, <<1, -1>>,
           <<1, 0>>, <<1, 1>>, <<0, 1>> >>
    ELSE << >>

\* move_type of compute_obstacle_distance; <<>> stands for the raise.
BrushfireMoves(conn) ==
    IF conn = 4 THEN << <<-1, 0>>, <<0, -1>>, <<1, 0>>, <<0, 1>> >>
    ELSE IF conn = 8 THEN
        << <<-1, 0>>, <<-1, -1>>, <<0, -1>>, <<1, -1>>,
           <<1, 0>>, <<1, 1>>, <<0, 1>>, <<-1, 1>> >>
    ELSE << >>

\* The bounds test of the BFS loop: TRUE when the neighbor is skipped.
BrushfireOutside(sh, n) ==
    n[1] >= sh[1] \/ n[2] >= sh[2] \/ n[1] < 0 \/ n[2] < 0

\* The body of `for move in move_type` for the dequeued cell t, from move k on:
\* the pair <<result, queue>> after it.
RECURSIVE BrushfireVisit(_, _, _, _, _, _)
BrushfireVisit(sh, res, q, t, moves, k) ==
    IF k > Len(moves) THEN <<res, q>>
    ELSE LET n == Step(t, moves[k]) IN
         IF BrushfireOutside(sh, n) THEN BrushfireVisit(sh, res, q, t, moves, k + 1)
         ELSE IF res[n] = 0
              THEN BrushfireVisit(sh, [res EXCEPT ![n] = res[t] + 1],
                                  Append(q, n), t, moves, k + 1)
              ELSE BrushfireVisit(sh, res, q, t, moves, k + 1)

\* The queue after the initialisation loop: every obstacle cell, row-major.
ObstacleQueue(sh, g) ==
    LET IsObstacle(c) == g[c] = 1 IN SelectSeq(ndindex(sh), IsObstacle)

\* compute_obstacle_distance(grid_map, connectivity) up to the BFS loop: the
\* copy, the queue of obstacle cells, the move list or the ValueError.
CallBrushfire ==
    /\ pc = "idle"
    /\ \E sh \in Shapes : \E g \in Grids(sh) : \E conn \in Connectivities :
        /\ fn' = "compute_obstacle_distance"
        /\ shape' = sh
        /\ grid_map' = g
        /\ connectivity' = conn
        /\ result' = g
        /\ queue' = ObstacleQueue(sh, g)
        /\ IF BrushfireMoves(conn) = << >>
           THEN pc' = "raised" /\ err' = "ValueError"
           ELSE pc' = "bf_loop" /\ err' = "none"
    /\ UNCHANGED <<goal, vis_map>>
    /\ UNCHANGED descent_vars
    /\ UNCHANGED frame_vars

\* One iteration of `while len(queue) != 0`.
BrushfireStep ==
    /\ pc = "bf_loop"
    /\ queue # << >>
    /\ LET t == Head(queue)
           after == BrushfireVisit(shape, result, Tail(queue), t,
                                   BrushfireMoves(connectivity), 1)
       IN /\ result' = after[1]
          /\ queue' = after[2]
    /\ UNCHANGED <<pc, fn, err, shape, grid_map, goal, connectivity, vis_map>>
    /\ UNCHANGED descent_vars
    /\ UNCHANGED frame_vars

\* The queue is empty: subtract 1 everywhere and return.
BrushfireReturn ==
    /\ pc = "bf_loop"
    /\ queue = << >>
    /\ result' = [c \in Cells(shape) |-> result[c] - 1]
    /\ pc' = "returned"
    /\ UNCHANGED <<fn, err, shape, grid_map, goal, connectivity, vis_map, queue>>
    /\ UNCHANGED descent_vars
    /\ UNCHANGED frame_vars

\* dist_map + 1, the array run_scenario passes to compute_repulsive_field.
OffsetDistance(dist_map) == [c \in DOMAIN dist_map |-> dist_map[c] + 1]

\* ------------------------------------------------ wavefront (wavefront.py)
\* is_valid_cell with the upper row bound off by one: the last row is refused.
is_valid_cell_off_by_one(sh, map, point) ==
    IF point[1] < 0 \/ point[1] >= sh[1] - 1 THEN FALSE
    ELSE IF point[2] < 0 \/ point[2] >= sh[2] THEN FALSE
    ELSE IF map[point] = Inf THEN FALSE
    ELSE TRUE

\* is_valid_cell(grid_map, point), on an array of shape sh.
is_valid_cell(sh, map, point) ==
    IF point[1] < 0 \/ point[1] >= sh[1] THEN FALSE
    ELSE IF point[2] < 0 \/ point[2] >= sh[2] THEN FALSE
    ELSE IF map[point] = Inf THEN FALSE
    ELSE TRUE

\* The 4-connectivity list with [0, 1] written twice and [0, -1] missing.
WavefrontMovesDuplicate(conn) ==
    IF conn = 4 THEN << <<1, 0>>, <<0, 1>>, <<-1, 0>>, <<0, 1>> >>
    ELSE IF conn = 8 THEN
        << <<-1, 0>>, <<-1, -1>>, <<0, -1>>, <<1, -1>>,
           <<1, 0>>, <<1, 1>>, <<0, 1>>, <<-1, 1>> >>
    ELSE << >>

\* move_type of compute_wavefront; <<>> stands for the raise.
WavefrontMoves(conn) ==
    IF conn = 4 THEN << <<1, 0>>, <<0, 1>>, <<-1, 0>>, <<0, -1>> >>
    ELSE IF conn = 8 THEN
        << <<-1, 0>>, <<-1, -1>>, <<0, -1>>, <<1, -1>>,
           <<1, 0>>, <<1, 1>>, <<0, 1>>, <<-1, 1>> >>
    ELSE << >>

\* The relaxation test on a valid neighbor n of the dequeued cell t.
WavefrontRelaxes(res, t, n) == res[n] # Inf /\ res[n] > res[t] + 1

\* The body of `for move in move_type` for the dequeued cell t, from move k on.
RECURSIVE WavefrontVisit(_, _, _, _, _, _)
WavefrontVisit(sh, res, q, t, moves, k) ==
    IF k > Len(moves) THEN <<res, q>>
    ELSE LET n == Step(t, moves[k]) IN
         IF ~is_valid_cell(sh, res, n) THEN WavefrontVisit(sh, res, q, t, moves, k + 1)
         ELSE IF WavefrontRelaxes(res, t, n)
              THEN WavefrontVisit(sh, [res EXCEPT ![n] = res[t] + 1],
                                  Append(q, n), t, moves, k + 1)
              ELSE WavefrontVisit(sh, res, q, t, moves, k + 1)

\* result after the marking loop and `result[goal] = 0`.
WavefrontInitial(sh, g, gl) ==
    [c \in Cells(sh) |->
        IF c = gl THEN 0
        ELSE IF g[c] = 1 THEN Inf
        ELSE g[c] + Unreached]

\* compute_wavefront(grid_map, goal, connectivity) up to the BFS loop.
CallWavefront ==
    /\ pc = "idle"
    /\ \E sh \in Shapes : \E g \in Grids(sh) : \E gl \in Cells(sh) :
       \E conn \in Connectivities :
        /\ fn' = "compute_wavefront"
        /\ shape' = sh
        /\ grid_map' = g
        /\ goal' = gl
        /\ connectivity' = conn
        /\ result' = WavefrontInitial(sh, g, gl)
        /\ queue' = <<gl>>
        /\ IF WavefrontMoves(conn) = << >>
           THEN pc' = "raised" /\ err' = "ValueError"
           ELSE pc' = "wf_loop" /\ err' = "none"
    /\ UNCHANGED vis_map
    /\ UNCHANGED descent_vars
    /\ UNCHANGED frame_vars

\* One iteration of `while len(queue) != 0`.
WavefrontStep ==
    /\ pc = "wf_loop"
    /\ queue # << >>
    /\ LET t == Head(queue)
           after == WavefrontVisit(shape, result, Tail(queue), t,
                                   WavefrontMoves(connectivity), 1)
       IN /\ result' = after[1]
          /\ queue' = after[2]
    /\ UNCHANGED <<pc, fn, err, shape, grid_map, goal, connectivity, vis_map>>
    /\ UNCHANGED descent_vars
    /\ UNCHANGED frame_vars

\* The queue is empty: build the visualization map and return both.
WavefrontReturn ==
    /\ pc = "wf_loop"
    /\ queue = << >>
    /\ vis_map' = [c \in Cells(shape) |-> IF result[c] = Inf THEN 0 ELSE result[c]]
    /\ pc' = "returned"
    /\ UNCHANGED <<fn, err, shape, grid_map, goal, connectivity, result, queue>>
    /\ UNCHANGED descent_vars
    /\ UNCHANGED frame_vars

\* ------------------------------------------ greedy descent (greedy_descent.py)
\* move_type of greedy_descent_path; <<>> stands for the raise.
GreedyMoves(conn) ==
    IF conn = 4 THEN << <<1, 0>>, <<0, 1>>, <<-1, 0>>, <<0, -1>> >>
    ELSE IF conn = 8 THEN
        << <<1, 0>>, <<1, 1>>, <<-1, 1>>, <<-1, -1>>,
           <<0, 1>>, <<0, -1>>, <<-1, 0>>, <<1, -1>> >>
    ELSE << >>

\* The bounds test with strict lower bounds: row 0 and column 0 are refused.
GreedyInsideStrict(sh, n) == 0 < n[1] /\ n[1] < sh[1] /\ 0 < n[2] /\ n[2] < sh[2]

\* The bounds test of the descent: TRUE when the neighbor is looked at.
GreedyInside(sh, n) == 0 <= n[1] /\ n[1] < sh[1] /\ 0 <= n[2] /\ n[2] < sh[2]

\* The body of `for move in move_type`, from move k on: next_cell after it.
RECURSIVE GreedyScan(_, _, _, _, _, _, _)
GreedyScan(sh, wavefront_map, cur, moves, k, best_value, next_cell) ==
    IF k > Len(moves) THEN next_cell
    ELSE LET n == Step(cur, moves[k]) IN
         IF GreedyInside(sh, n) /\ wavefront_map[n] < best_value
         THEN GreedyScan(sh, wavefront_map, cur, moves, k + 1, wavefront_map[n], n)
         ELSE GreedyScan(sh, wavefront_map, cur, moves, k + 1, best_value, next_cell)

\* next_cell at the end of one iteration of the while loop.
GreedyNext(sh, wavefront_map, cur, conn) ==
    GreedyScan(sh, wavefront_map, cur, GreedyMoves(conn), 1, wavefront_map[cur], cur)

\* greedy_descent_path(wf_map, start, goal, connectivity) up to the while
\* loop, called as run_scenario does on the map compute_wavefront returned,
\* with the same goal.
CallGreedy ==
    /\ pc = "returned"
    /\ fn = "compute_wavefront"
    /\ \E s \in Cells(shape) : \E conn \in Connectivities :
        /\ fn' = "greedy_descent_path"
        /\ field' = result
        /\ start' = s
        /\ path_connectivity' = conn
        /\ current' = s
        /\ trajectory' = <<s>>
        /\ IF GreedyMoves(conn) = << >>
           THEN pc' = "raised" /\ err' = "ValueError"
           ELSE pc' = "greedy_loop" /\ err' = "none"
    /\ UNCHANGED <<shape, goal, max_iters, iters>>
    /\ UNCHANGED propagation_vars
    /\ UNCHANGED frame_vars

\* One iteration of the while loop that moves.
GreedyStep ==
    /\ pc = "greedy_loop"
    /\ current # goal
    /\ LET next_cell == GreedyNext(shape, field, current, path_connectivity) IN
        /\ next_cell # current
        /\ current' = next_cell
        /\ trajectory' = Append(trajectory, next_cell)
    /\ UNCHANGED <<pc, fn, err, shape, goal, field, start, path_connectivity,
                   max_iters, iters>>
    /\ UNCHANGED propagation_vars
    /\ UNCHANGED frame_vars

\* The loop ends, at the goal or by the break at a dead end; return.
GreedyReturn ==
    /\ pc = "greedy_loop"
    /\ \/ current = goal
       \/ GreedyNext(shape, field, current, path_connectivity) = current
    /\ pc' = "returned"
    /\ UNCHANGED <<fn, err, shape, goal>>
    /\ UNCHANGED descent_vars
    /\ UNCHANGED propagation_vars
    /\ UNCHANGED frame_vars

\* ---------------------------------------- gradient descent (gradient_descent.py)
\* move_type of gradient_descent_step; <<>> stands for the raise.
GradientMoves(conn) ==
    IF conn = 4 THEN << <<0, 0>>, <<0, 1>>, <<-1, 0>>, <<1, 0>>, <<0, -1>> >>
    ELSE IF conn = 8 THEN
        << <<0, 0>>, <<-1, -1>>, <<-1, 0>>, <<0, -1>>,
           <<1, 0>>, <<0, 1>>, <<1, -1>>, <<1, 1>>, <<-1, 1>> >>
    ELSE << >>

\* total_potential[i, j] is an array read with no bounds test before it: an
\* index i of an axis of length n is accepted when -n <= i < n, a negative one
\* counting from the end, and raises IndexError otherwise.
IndexAccepted(sh, p) ==
    /\ -sh[1] <= p[1] /\ p[1] < sh[1]
    /\ -sh[2] <= p[2] /\ p[2] < sh[2]

IndexedCell(sh, p) ==
    <<IF p[1] < 0 THEN p[1] + sh[1] ELSE p[1],
      IF p[2] < 0 THEN p[2] + sh[2] ELSE p[2]>>

\* potential_diffs, zipped with move_type: the pairs <<diff, move>>.
PotentialDiffs(sh, total_potential, cur, moves) ==
    [k \in 1..Len(moves) |->
        <<total_potential[IndexedCell(sh, Step(cur, moves[k]))]
            - total_potential[IndexedCell(sh, cur)],
          moves[k]>>]

\* The order of the pairs min() compares: the diff first, then the move
\* vector, row before column.
PairLess(a, b) ==
    \/ a[1] < b[1]
    \/ a[1] = b[1] /\ a[2][1] < b[2][1]
    \/ a[1] = b[1] /\ a[2][1] = b[2][1] /\ a[2][2] < b[2][2]

\* min(zip(potential_diffs, move_type))[1]
BestDirection(pairs) ==
    LET S == {pairs[k] : k \in 1..Len(pairs)}
    IN (CHOOSE a \in S : \A b \in S : ~PairLess(b, a))[2]

\* gradient_descent_step(total_potential, current, connectivity): the
\* exception raised ("none" when it returns) and the position returned.
gradient_descent_step(sh, total_potential, cur, conn) ==
    LET moves == GradientMoves(conn) IN
    IF moves = << >> THEN [raised |-> "ValueError", next |-> cur]
    ELSE IF \E k \in 1..Len(moves) : ~IndexAccepted(sh, Step(cur, moves[k]))
         THEN [raised |-> "IndexError", next |-> cur]
    ELSE [raised |-> "none",
          next |-> Step(cur, BestDirection(PotentialDiffs(sh, total_potential, cur, moves)))]

\* gradient_descent_path(total_potential, start, goal, connectivity, max_iters)
\* up to the for loop.
CallGradient ==
    /\ pc = "idle"
    /\ \E sh \in Shapes : \E f \in Fields(sh) : \E s \in Cells(sh) :
       \E gl \in Cells(sh) : \E conn \in Connectivities : \E n \in 0..MaxIters :
        /\ fn' = "gradient_descent_path"
        /\ shape' = sh
        /\ field' = f
        /\ start' = s
        /\ goal' = gl
        /\ path_connectivity' = conn
        /\ max_iters' = n
        /\ current' = s
        /\ trajectory' = <<s>>
        /\ iters' = 0
        /\ pc' = "gd_loop"
    /\ UNCHANGED err
    /\ UNCHANGED propagation_vars
    /\ UNCHANGED frame_vars

\* The for loop running one iteration too many.
GradientContinuesOnceMore(n, i, cur, gl) == i <= n /\ cur # gl

\* The for loop's test: another iteration runs.
GradientContinues(n, i, cur, gl) == i < n /\ cur # gl

\* One iteration of the for loop: the step, which may raise, and the appends.
GradientStep ==
    /\ pc = "gd_loop"
    /\ GradientContinues(max_iters, iters, current, goal)
    /\ LET r == gradient_descent_step(shape, field, current, path_connectivity) IN
        IF r.raised # "none"
        THEN /\ pc' = "raised"
             /\ err' = r.raised
             /\ UNCHANGED <<current, trajectory, iters>>
        ELSE /\ current' = r.next
             /\ trajectory' = Append(trajectory, r.next)
             /\ iters' = iters + 1
             /\ UNCHANGED <<pc, err>>
    /\ UNCHANGED <<fn, shape, goal, field, start, path_connectivity, max_iters>>
    /\ UNCHANGED propagation_vars
    /\ UNCHANGED frame_vars

\* The loop ends, by the break at the goal or after max_iters iterations.
GradientReturn ==
    /\ pc = "gd_loop"
    /\ ~GradientContinues(max_iters, iters, current, goal)
    /\ pc' = "returned"
    /\ UNCHANGED <<fn, err, shape, goal>>
    /\ UNCHANGED descent_vars
    /\ UNCHANGED propagation_vars
    /\ UNCHANGED frame_vars

\* ---------------------------------------------- the calls, seen by the caller
\* Arrays and lists are objects: heap maps an object's id (its index) to its
\* contents, and a name holds an id.  A call is given the ids of its argument
\* objects (the first objects of the heap, kept in `saved` as they were when
\* the call began) and returns ids; a write through a name changes the object
\* the name holds, whoever else holds it.  Each action below is one whole call.

\* `result = grid_map` with the copy forgotten: the name holds the argument.
ArrayAlias(h, r) == [heap |-> h, ref |-> r]

\* a.copy() (also .astype(float), list(a), np.array(a)): a new object with the
\* contents of object r.
ArrayCopy(h, r) == [heap |-> Append(h, h[r]), ref |-> Len(h) + 1]

\* A newly built array or list with contents v.
Alloc(h, v) == [heap |-> Append(h, v), ref |-> Len(h) + 1]

\* An assignment into object r: its contents become v.
Store(h, r, v) == [h EXCEPT ![r] = v]

\* The scaling factors and influence distances tried (0.5 * factor is exact).
ScalingFactors == {2, 4}
InfluenceDistances == {1, 2}

\* The while loop of compute_obstacle_distance, run until the queue is empty.
RECURSIVE BrushfireRun(_, _, _, _)
BrushfireRun(sh, res, q, moves) ==
    IF q = << >> THEN res
    ELSE LET after == BrushfireVisit(sh, res, Tail(q), Head(q), moves, 1)
         IN BrushfireRun(sh, after[1], after[2], moves)

\* result after `result[:] = result[:] - 1`.
BrushfireOffset(sh, res) == [x \in Cells(sh) |-> res[x] - 1]

\* compute_obstacle_distance(grid_map, connectivity), from entry to return.
compute_obstacle_distance ==
    /\ pc = "idle"
    /\ \E sh \in Shapes : \E g \in Grids(sh) : \E conn \in Connectivities :
        LET h0 == <<g>>
            c == ArrayCopy(h0, 1)
            moves == BrushfireMoves(conn)
            levels == BrushfireRun(sh, c.heap[c.ref],
                                   ObstacleQueue(sh, c.heap[c.ref]), moves)
        IN /\ fn' = "compute_obstacle_distance"
           /\ shape' = sh
           /\ args' = [grid_map |-> 1, connectivity |-> conn]
           /\ saved' = h0
           /\ IF moves = << >>
              THEN /\ pc' = "raised" /\ err' = "ValueError"
                   /\ heap' = c.heap
                   /\ rets' = << >>
              ELSE /\ pc' = "returned" /\ err' = "none"
                   /\ heap' = Store(c.heap, c.ref, BrushfireOffset(sh, levels))
                   /\ rets' = <<c.ref>>
    /\ UNCHANGED goal
    /\ UNCHANGED propagation_vars
    /\ UNCHANGED descent_vars

\* ------------------------------------- attractive field (attractive_field.py)
Abs(x) == IF x < 0 THEN -x ELSE x

\* manhattan_distance(p1, p2)
manhattan_distance(p1, p2) == Abs(p1[1] - p2[1]) + Abs(p1[2] - p2[2])

\* euclidean_distance(p1, p2) ** 2, in exact arithmetic: the float result is
\* this number when it is 0 (at the goal) and may differ from it in the last
\* bit elsewhere.
euclidean_distance_squared(p1, p2) ==
    (p1[1] - p2[1]) * (p1[1] - p2[1]) + (p1[2] - p2[2]) * (p1[2] - p2[2])

\* 0.5 * scaling_factor * (d ** 2), given d ** 2.
AttractivePotential(scaling_factor, dsquared) == (scaling_factor \div 2) * dsquared

\* The modes tried: the four documented ones and another string.
Modes == {"euclidean", "manhattan", "4_point", "8_point", "other"}

\* move_type of compute_attractive_field: empty for a mode that is neither
\* "4_point" nor "8_point" (nothing is raised).
AttractiveMoves(mode) ==
    IF mode = "4_point" THEN << <<-1, 0>>, <<0, -1>>, <<1, 0>>, <<0, 1>> >>
    ELSE IF mode = "8_point" THEN
        << <<-1, 0>>, <<-1, -1>>, <<0, -1>>, <<1, -1>>,
           <<1, 0>>, <<1, 1>>, <<0, 1>>, <<-1, 1>> >>
    ELSE << >>

\* The bounds test of the BFS loop: TRUE when the neighbor is skipped.
AttractiveOutside(sh, n) ==
    n[1] >= sh[1] \/ n[2] >= sh[2] \/ n[1] < 0 \/ n[2] < 0

\* The body of `for move in move_type` for the dequeued cell t, from move k on.
RECURSIVE AttractiveVisit(_, _, _, _, _, _)
AttractiveVisit(sh, res, q, t, moves, k) ==
    IF k > Len(moves) THEN <<res, q>>
    ELSE LET n == Step(t, moves[k]) IN
         IF AttractiveOutside(sh, n) THEN AttractiveVisit(sh, res, q, t, moves, k + 1)
         ELSE IF res[n] = 0
              THEN AttractiveVisit(sh, [res EXCEPT ![n] = res[t] + 1],
                                   Append(q, n), t, moves, k + 1)
              ELSE AttractiveVisit(sh, res, q, t, moves, k + 1)

\* The while loop, run until the queue is empty.
RECURSIVE AttractiveRun(_, _, _, _)
AttractiveRun(sh, res, q, moves) ==
    IF q = << >> THEN res
    ELSE LET after == AttractiveVisit(sh, res, Tail(q), Head(q), moves, 1)
         IN AttractiveRun(sh, after[1], after[2], moves)

\* The copy kept as it is: `result[:] = 0` forgotten.
AttractiveKept(sh, res) == res

\* result after `result[:] = 0`.
AttractiveCleared(sh, res) == [x \in Cells(sh) |-> 0]

\* The closed-form branch: the field of the "euclidean" or "manhattan" mode.
AttractiveClosedForm(sh, gl, scaling_factor, mode) ==
    [x \in Cells(sh) |->
        AttractivePotential(scaling_factor,
            IF mode = "euclidean"
            THEN euclidean_distance_squared(x, gl)
            ELSE manhattan_distance(x, gl) * manhattan_distance(x, gl))]

\* result after `result[:] = result[:] - 1` and the loop that squares.
AttractiveOfLevels(sh, levels, scaling_factor) ==
    [x \in Cells(sh) |->
        AttractivePotential(scaling_factor, (levels[x] - 1) * (levels[x] - 1))]

\* The BFS branch on the cleared array res: the goal at level 1, the loop,
\* the subtraction of 1 and the potential of every cell.
AttractiveByHops(sh, res, gl, scaling_factor, mode) ==
    AttractiveOfLevels(sh, AttractiveRun(sh, [res EXCEPT ![gl] = 1], <<gl>>,
                                         AttractiveMoves(mode)),
                       scaling_factor)

\* compute_attractive_field(grid_map, goal, scaling_factor, mode), from entry
\* to return.
compute_attractive_field ==
    /\ pc = "idle"
    /\ \E sh \in Shapes : \E g \in Grids(sh) : \E gl \in Cells(sh) :
       \E xi \in ScalingFactors : \E mode \in Modes :
        LET h0 == <<g, gl>>
            c == ArrayCopy(h0, 1)
            local_goal == Alloc(c.heap, h0[2])
            cleared == AttractiveCleared(sh, local_goal.heap[c.ref])
            final == IF mode \in {"euclidean", "manhattan"}
                     THEN AttractiveClosedForm(sh, local_goal.heap[local_goal.ref],
                                               xi, mode)
                     ELSE AttractiveByHops(sh, cleared,
                                           local_goal.heap[local_goal.ref], xi, mode)
        IN /\ fn' = "compute_attractive_field"
           /\ shape' = sh
           /\ args' = [grid_map |-> 1, goal |-> 2, scaling_factor |-> xi,
                       mode |-> mode]
           /\ saved' = h0
           /\ heap' = Store(local_goal.heap, c.ref, final)
           /\ rets' = <<c.ref>>
           /\ pc' = "returned"
           /\ err' = "none"
    /\ UNCHANGED goal
    /\ UNCHANGED propagation_vars
    /\ UNCHANGED descent_vars

\* ------------------------------------- repulsive field (repulsive_field.py)
\* 0.5 * scaling_factor * ((1.0 / d - 1.0 / Q) ** 2) as the exact fraction
\* <<numerator, denominator>>; 1.0 / 0 is inf, and so is the potential there.
RepulsivePotential(d, influence_distance, scaling_factor) ==
    IF d <= influence_distance
    THEN IF d = 0 THEN <<Inf, 1>>
         ELSE <<(scaling_factor \div 2) * (influence_distance - d) * (influence_distance - d),
                d * d * influence_distance * influence_distance>>
    ELSE <<0, 1>>

\* result after the loop over its cells.
RepulsiveOfDistances(sh, res, influence_distance, scaling_factor) ==
    [x \in Cells(sh) |-> RepulsivePotential(res[x], influence_distance, scaling_factor)]

\* compute_repulsive_field(distance_map, influence_distance, scaling_factor),
\* from entry to return.
compute_repulsive_field ==
    /\ pc = "idle"
    /\ \E sh \in Shapes : \E d \in Fields(sh) :
       \E q \in InfluenceDistances : \E eta \in ScalingFactors :
        LET h0 == <<d>>
            c == ArrayCopy(h0, 1)
        IN /\ fn' = "compute_repulsive_field"
           /\ shape' = sh
           /\ args' = [distance_map |-> 1, influence_distance |-> q,
                       scaling_factor |-> eta]
           /\ saved' = h0
           /\ heap' = Store(c.heap, c.ref,
                            RepulsiveOfDistances(sh, c.heap[c.ref], q, eta))
           /\ rets' = <<c.ref>>
           /\ pc' = "returned"
           /\ err' = "none"
    /\ UNCHANGED goal
    /\ UNCHANGED propagation_vars
    /\ UNCHANGED descent_vars

\* --------------------------------- total potential (gradient_descent.py:11)
\* The fields of one level, used as the second operand of the sum.
Levels(sh) == {[x \in Cells(sh) |-> v] : v \in 0 .. MaxVal}

\* compute_total_potential(attractive_map, repulsive_map): the sum is a new
\* array.  The caller may pass one array twice.
compute_total_potential ==
    /\ pc = "idle"
    /\ \E sh \in Shapes : \E a \in Fields(sh) : \E twice \in BOOLEAN :
       \E b \in IF twice THEN {a} ELSE Levels(sh) :
        LET h0 == IF twice THEN <<a>> ELSE <<a, b>>
            second == IF twice THEN 1 ELSE 2
            total == Alloc(h0, [x \in Cells(sh) |-> h0[1][x] + h0[second][x]])
        IN /\ fn' = "compute_total_potential"
           /\ shape' = sh
           /\ args' = [attractive_map |-> 1, repulsive_map |-> second]
           /\ saved' = h0
           /\ heap' = total.heap
           /\ rets' = <<total.ref>>
           /\ pc' = "returned"
           /\ err' = "none"
    /\ UNCHANGED goal
    /\ UNCHANGED propagation_vars
    /\ UNCHANGED descent_vars

\* ------------------------------------------------- wavefront, as one call
\* The while loop of compute_wavefront, run until the queue is empty.
RECURSIVE WavefrontRun(_, _, _, _)
WavefrontRun(sh, res, q, moves) ==
    IF q = << >> THEN res
    ELSE LET after == WavefrontVisit(sh, res, Tail(q), Head(q), moves, 1)
         IN WavefrontRun(sh, after[1], after[2], moves)

\* vis_map after its loop: inf replaced by 0.
VisualizationMap(sh, res) == [x \in Cells(sh) |-> IF res[x] = Inf THEN 0 ELSE res[x]]

\* compute_wavefront(grid_map, goal, connectivity), from entry to return.
compute_wavefront ==
    /\ pc = "idle"
    /\ \E sh \in Shapes : \E g \in Grids(sh) : \E gl \in Cells(sh) :
       \E conn \in Connectivities :
        LET h0 == <<g, gl>>
            c == ArrayCopy(h0, 1)
            moves == WavefrontMoves(conn)
            marked == Store(c.heap, c.ref, WavefrontInitial(sh, c.heap[c.ref], h0[2]))
            done == Store(marked, c.ref,
                          WavefrontRun(sh, marked[c.ref], <<h0[2]>>, moves))
            vis == ArrayCopy(done, c.ref)
        IN /\ fn' = "compute_wavefront"
           /\ shape' = sh
           /\ args' = [grid_map |-> 1, goal |-> 2, connectivity |-> conn]
           /\ saved' = h0
           /\ IF moves = << >>
              THEN /\ pc' = "raised" /\ err' = "ValueError"
                   /\ heap' = marked
                   /\ rets' = << >>
              ELSE /\ pc' = "returned" /\ err' = "none"
                   /\ heap' = Store(vis.heap, vis.ref,
                                    VisualizationMap(sh, vis.heap[vis.ref]))
                   /\ rets' = <<c.ref, vis.ref>>
    /\ UNCHANGED goal
    /\ UNCHANGED propagation_vars
    /\ UNCHANGED descent_vars

\* ------------------------------------------------ the descents, as one call
\* The fields the whole-call descents are run on: the flat fields and the
\* field of distances to the goal on the empty grid.
DescentFields(sh, gl) ==
    Levels(sh) \cup {[x \in Cells(sh) |-> manhattan_distance(x, gl)]}

\* trajectory_rows and trajectory_cols of a trajectory.
TrajectoryRows(traj) == [k \in 1..Len(traj) |-> traj[k][1]]
TrajectoryCols(traj) == [k \in 1..Len(traj) |-> traj[k][2]]

\* The for loop of gradient_descent_path from iteration i on: the exception
\* that ends it ("none" when it returns) and the trajectory so far.
RECURSIVE GradientRun(_, _, _, _, _, _, _, _)
GradientRun(sh, total_potential, cur, traj, i, n, gl, conn) ==
    IF ~GradientContinues(n, i, cur, gl) THEN [raised |-> "none", trajectory |-> traj]
    ELSE LET r == gradient_descent_step(sh, total_potential, cur, conn) IN
         IF r.raised # "none" THEN [raised |-> r.raised, trajectory |-> traj]
         ELSE GradientRun(sh, total_potential, r.next, Append(traj, r.next),
                          i + 1, n, gl, conn)

\* gradient_descent_path(total_potential, start, goal, connectivity,
\* max_iters), from entry to return.  `current` is bound to a new array by
\* every step; nothing is assigned into the array it first holds.
gradient_descent_path ==
    /\ pc = "idle"
    /\ \E sh \in Shapes : \E s \in Cells(sh) : \E gl \in Cells(sh) :
       \E f \in DescentFields(sh, gl) :
       \E conn \in Connectivities : \E n \in {0, MaxIters} :
        LET h0 == <<f, s, gl>>
            c == ArrayCopy(h0, 2)
            run == GradientRun(sh, h0[1], c.heap[c.ref], <<c.heap[c.ref]>>,
                               0, n, h0[3], conn)
            rows == Alloc(c.heap, TrajectoryRows(run.trajectory))
            cols == Alloc(rows.heap, TrajectoryCols(run.trajectory))
        IN /\ fn' = "gradient_descent_path"
           /\ shape' = sh
           /\ args' = [total_potential |-> 1, start |-> 2, goal |-> 3,
                       connectivity |-> conn, max_iters |-> n]
           /\ saved' = h0
           /\ heap' = cols.heap
           /\ err' = run.raised
           /\ IF run.raised # "none"
              THEN pc' = "raised" /\ rets' = << >>
              ELSE pc' = "returned" /\ rets' = <<rows.ref, cols.ref>>
    /\ UNCHANGED goal
    /\ UNCHANGED propagation_vars
    /\ UNCHANGED descent_vars

\* The while loop of greedy_descent_path: the trajectory when it ends.
RECURSIVE GreedyRun(_, _, _, _, _, _)
GreedyRun(sh, wavefront_map, cur, traj, gl, conn) ==
    IF cur = gl THEN traj
    ELSE LET next_cell == GreedyNext(sh, wavefront_map, cur, conn) IN
         IF next_cell = cur THEN traj
         ELSE GreedyRun(sh, wavefront_map, next_cell, Append(traj, next_cell), gl, conn)

\* greedy_descent_path(wavefront_map, start, goal, connectivity), from entry
\* to return, on any field.  `current` is bound to a new list by every move.
greedy_descent_path ==
    /\ pc = "idle"
    /\ \E sh \in Shapes : \E s \in Cells(sh) : \E gl \in Cells(sh) :
       \E f \in DescentFields(sh, gl) : \E conn \in Connectivities :
        LET h0 == <<f, s, gl>>
            c == ArrayCopy(h0, 2)
            first == <<c.heap[c.ref]>>
            raises == GreedyMoves(conn) = << >>
            traj == IF raises THEN first
                    ELSE GreedyRun(sh, h0[1], c.heap[c.ref], first, h0[3], conn)
            rows == Alloc(c.heap, TrajectoryRows(traj))
            cols == Alloc(rows.heap, TrajectoryCols(traj))
        IN /\ fn' = "greedy_descent_path"
           /\ shape' = sh
           /\ args' = [wavefront_map |-> 1, start |-> 2, goal |-> 3,
                       connectivity |-> conn]
           /\ saved' = h0
           /\ heap' = cols.heap
           /\ IF raises
              THEN pc' = "raised" /\ err' = "ValueError" /\ rets' = << >>
              ELSE pc' = "returned" /\ err' = "none" /\ rets' = <<rows.ref, cols.ref>>
    /\ UNCHANGED goal
    /\ UNCHANGED propagation_vars
    /\ UNCHANGED descent_vars

\* ------------------------------------------------------- specifications
Init ==
    /\ pc = "idle"
    /\ fn = "none"
    /\ err = "none"
    /\ shape = <<0, 0>>
    /\ grid_map = << >>
    /\ goal = << >>
    /\ start = << >>
    /\ connectivity = 0
    /\ result = << >>
    /\ vis_map = << >>
    /\ queue = << >>
    /\ field = << >>
    /\ path_connectivity = 0
    /\ max_iters = 0
    /\ current = << >>
    /\ trajectory = << >>
    /\ iters = 0
    /\ heap = << >>
    /\ args = << >>
    /\ saved = << >>
    /\ rets = << >>

NextBrushfire == CallBrushfire \/ BrushfireStep \/ BrushfireReturn

SpecBrushfire == Init /\ [][NextBrushfire]_vars

NextWavefront ==
    \/ CallWavefront \/ WavefrontStep \/ WavefrontReturn
    \/ CallGreedy \/ GreedyStep \/ GreedyReturn

SpecWavefront == Init /\ [][NextWavefront]_vars

NextGradient == CallGradient \/ GradientStep \/ GradientReturn

SpecGradient == Init /\ [][NextGradient]_vars

SpecAttractive == Init /\ [][compute_attractive_field]_vars

NextCalls ==
    \/ compute_obstacle_distance
    \/ compute_attractive_field
    \/ compute_repulsive_field
    \/ compute_total_potential
    \/ compute_wavefront
    \/ gradient_descent_path
    \/ greedy_descent_path
SpecCalls == Init /\ [][NextCalls]_vars

Next == NextBrushfire \/ NextWavefront \/ NextGradient \/ NextCalls

Spec == Init /\ [][Next]_vars

\* ------------------------------------------------- what the claims speak of
\* The move set of a connectivity: the four axis-aligned unit moves, and for
\* 8 the four diagonal ones as well.
MoveSet(conn) ==
    LET unit == {-1, 0, 1} \X {-1, 0, 1} IN
    IF conn = 4
    THEN {m \in unit : (m[1] = 0) # (m[2] = 0)}
    ELSE {m \in unit : m # <<0, 0>>}

\* Two cells of the grid one move apart.
Adjacent(sh, conn, p, q) ==
    /\ p \in Cells(sh) /\ q \in Cells(sh)
    /\ \E m \in MoveSet(conn) : q = Step(p, m)

\* Hop counts by level sets: dist maps every cell reached so far to its number
\* of hops; level k + 1 is every cell of `allowed` not yet reached that is one
\* move from a cell of level k.
RECURSIVE Flood(_, _, _, _, _)
Flood(sh, conn, allowed, dist, k) ==
    LET level == {c \in DOMAIN dist : dist[c] = k}
        next == {q \in allowed \ DOMAIN dist :
                    \E p \in level : Adjacent(sh, conn, p, q)}
    IN IF next = {} THEN dist
       ELSE Flood(sh, conn, allowed,
                  [c \in DOMAIN dist \cup next |-> IF c \in next THEN k + 1 ELSE dist[c]],
                  k + 1)

\* The least number of hops from a cell of `sources` to each cell that a path
\* inside `allowed` reaches; the cells no path reaches are not in its domain.
HopDistance(sh, conn, sources, allowed) ==
    Flood(sh, conn, allowed, [c \in sources |-> 0], 0)

Occupied == {c \in Cells(shape) : grid_map[c] = 1}
Free == {c \in Cells(shape) : grid_map[c] = 0}

Returned(f) == pc = "returned" /\ fn = f

\* ------------------------------------------------------------------ C1
\* C1: on a grid with at least one Occupied cell, for connectivity 4 and 8,
\* compute_obstacle_distance returns 0 at every Occupied cell and, at every
\* Free cell, the least number of hops under the connectivity's move set to
\* the nearest Occupied cell.
C1_BrushfireIsHopDistance ==
    (Returned("compute_obstacle_distance") /\ Occupied # {}) =>
        LET d == HopDistance(shape, connectivity, Occupied, Cells(shape)) IN
        /\ DOMAIN result = Cells(shape)
        /\ \A c \in Occupied : result[c] = 0
        /\ \A c \in Free : c \in DOMAIN d /\ result[c] = d[c]

\* The 3x3 scenario: only (1,1) occupied, connectivity 4, value 2 at (0,0).
C1_Witness ==
    /\ Returned("compute_obstacle_distance")
    /\ shape = <<3, 3>>
    /\ Occupied = {<<1, 1>>}
    /\ connectivity = 4
    /\ result[<<0, 0>>] = 2

\* ------------------------------------------------------------------ C8
\* C8: for every grid, the grid with no Occupied cell included, every value
\* compute_obstacle_distance returns is >= 0 and every Occupied cell is 0, so
\* the field offset by +1 that run_scenario passes on is >= 1 everywhere.
C8_DistanceNonNegative ==
    Returned("compute_obstacle_distance") =>
        /\ \A c \in Cells(shape) : result[c] >= 0
        /\ \A c \in Occupied : result[c] = 0
        /\ \A c \in Cells(shape) : OffsetDistance(result)[c] >= 1

\* ------------------------------------------------------------------ C2
\* The cells a path of Free cells joins to the goal, with the length in hops
\* of the shortest such path.
GoalDistance == HopDistance(shape, connectivity, {goal}, Free)

\* C2: for a Free goal and connectivity 4 and 8, the distance field
\* compute_wavefront returns is 0 at the goal, the unreachable sentinel at
\* every Occupied cell and, at every Free cell joined to the goal by Free
\* cells, the length of the shortest such path.
C2_WavefrontIsShortestPath ==
    (Returned("compute_wavefront") /\ goal \in Free) =>
        /\ DOMAIN result = Cells(shape)
        /\ result[goal] = 0
        /\ \A c \in Occupied : result[c] = Inf
        /\ \A c \in DOMAIN GoalDistance : result[c] = GoalDistance[c]

\* Scenario 1: 3x3, all free, goal (0,0), connectivity 4, value 4 at (2,2).
C2_Witness ==
    /\ Returned("compute_wavefront")
    /\ shape = <<3, 3>>
    /\ Occupied = {}
    /\ goal = <<0, 0>>
    /\ connectivity = 4
    /\ result[<<2, 2>>] = 4

\* ------------------------------------------------------------------ C3
\* greedy_descent_path is running or has returned, on the wavefront map of a
\* Free goal, with the connectivity the map was computed with, from a Free
\* start joined to the goal by Free cells.
GreedyOnConnectedStart ==
    /\ fn = "greedy_descent_path"
    /\ pc \in {"greedy_loop", "returned"}
    /\ path_connectivity = connectivity
    /\ goal \in Free
    /\ start \in DOMAIN GoalDistance

\* C3: in that case the wavefront value goes down by exactly 1 at every step
\* of the path, the loop never stops at a dead end short of the goal, and the
\* call returns a path that ends at the goal and has distance[start] + 1
\* points.
C3_GreedyReachesGoal ==
    GreedyOnConnectedStart =>
        /\ \A i \in 1..Len(trajectory) :
            /\ trajectory[i] \in Cells(shape)
            /\ field[trajectory[i]] = field[start] - (i - 1)
        /\ (pc = "greedy_loop" /\ current # goal) =>
            GreedyNext(shape, field, current, path_connectivity) # current
        /\ pc = "returned" =>
            /\ trajectory[Len(trajectory)] = goal
            /\ Len(trajectory) = field[start] + 1

\* Scenario 4: 1x5, all free, goal (0,0), start (0,4), connectivity 4.
C3_Witness ==
    /\ Returned("greedy_descent_path")
    /\ shape = <<1, 5>>
    /\ Occupied = {}
    /\ goal = <<0, 0>>
    /\ connectivity = 4
    /\ path_connectivity = 4
    /\ trajectory = << <<0, 4>>, <<0, 3>>, <<0, 2>>, <<0, 1>>, <<0, 0>> >>

\* ------------------------------------------------------------------ C9
\* C9: for a Free goal, any two Free cells adjacent under the connectivity
\* have wavefront values at most 1 apart, joined to the goal or not.
C9_AdjacentWithinOne ==
    (Returned("compute_wavefront") /\ goal \in Free) =>
        \A p \in Free : \A q \in Free :
            Adjacent(shape, connectivity, p, q) =>
                /\ result[p] - result[q] <= 1
                /\ result[q] - result[p] <= 1

\* Adjacent Free cells on both sides of a wall: a pair joined to the goal that
\* differs by 1, and a pair cut off from it.
C9_Witness ==
    /\ Returned("compute_wavefront")
    /\ goal \in Free
    /\ \E p \in Free : \E q \in Free :
        /\ Adjacent(shape, connectivity, p, q)
        /\ result[p] = Unreached /\ result[q] = Unreached
    /\ \E p \in Free : \E q \in Free :
        /\ Adjacent(shape, connectivity, p, q)
        /\ result[q] = result[p] + 1

\* ------------------------------------------------------------------ C10
\* C10: the path of gradient_descent_path has at most max_iters + 1 points,
\* and the goal can only be its last point: no step is taken from the goal.
C10_PathLengthBound ==
    (fn = "gradient_descent_path" /\ pc # "idle") =>
        /\ Len(trajectory) <= max_iters + 1
        /\ \A i \in 1..(Len(trajectory) - 1) : trajectory[i] # goal

\* The iteration cap ends a descent that has not reached the goal.
C10_Witness ==
    /\ Returned("gradient_descent_path")
    /\ max_iters = 2
    /\ Len(trajectory) = max_iters + 1
    /\ current # goal

\* ------------------------------------------------------------------ C4
\* The candidate cells of a step are all inside the grid.
CandidatesInGrid ==
    \A k \in 1..Len(GradientMoves(path_connectivity)) :
        Step(current, GradientMoves(path_connectivity)[k]) \in Cells(shape)

\* The first move, in the order of the candidate list, whose potential
\* difference is the least one.
FirstMinimumMove ==
    LET moves == GradientMoves(path_connectivity)
        diff(k) == field[Step(current, moves[k])] - field[current]
        first == CHOOSE k \in 1..Len(moves) :
                    /\ \A j \in 1..Len(moves) : diff(k) <= diff(j)
                    /\ \A j \in 1..(k - 1) : diff(j) > diff(k)
    IN moves[first]

\* C4: every step of gradient_descent_path takes the move with the least
\* potential difference, the first one in the order of the candidate list
\* (the zero move first) when several share it.  Stated for the steps whose
\* candidates are all inside the grid.
C4_FirstMinimumWins ==
    [][(/\ pc = "gd_loop"
        /\ path_connectivity \in {4, 8}
        /\ CandidatesInGrid
        /\ iters' = iters + 1)
       => current' = Step(current, FirstMinimumMove)]_vars

\* ------------------------------------------------------------------ C5
\* C5: every path returned by either descent is a walk on the grid: every
\* point is a cell of the grid and every step is a move of the connectivity,
\* or the zero move for gradient descent.
C5_PathIsWalk ==
    (pc = "returned" /\ fn \in {"gradient_descent_path", "greedy_descent_path"}) =>
        /\ \A i \in 1..Len(trajectory) : trajectory[i] \in Cells(shape)
        /\ \A i \in 1..(Len(trajectory) - 1) :
            \/ \E m \in MoveSet(path_connectivity) :
                  trajectory[i + 1] = Step(trajectory[i], m)
            \/ fn = "gradient_descent_path" /\ trajectory[i + 1] = trajectory[i]

\* ------------------------------------------------------------------ C6
\* C6: a candidate neighbor outside the grid is skipped: the call does not
\* raise because of it and never moves onto it.
C6_OutsideNeighborSkipped ==
    /\ err # "IndexError"
    /\ fn \in {"gradient_descent_path", "greedy_descent_path"} =>
          current \in Cells(shape)

\* ------------------------------------------------------------------ C7
\* The connectivity argument of the call.
CallConnectivity ==
    IF fn \in {"gradient_descent_path", "greedy_descent_path"}
    THEN path_connectivity
    ELSE connectivity

\* C7: a call with a connectivity that is neither 4 nor 8 returns no result,
\* and the error it ends with is the invalid-connectivity error.
C7_InvalidConnectivityRaises ==
    (fn # "none" /\ CallConnectivity \notin {4, 8}) =>
        /\ pc # "returned"
        /\ pc = "raised" => err = "ValueError"

\* ------------------------------------------------------------------ C11
\* The core operations, and the argument objects of the call: the objects the
\* heap held when the call began.
CoreOperations ==
    {"compute_obstacle_distance", "compute_attractive_field",
     "compute_repulsive_field", "compute_total_potential", "compute_wavefront",
     "gradient_descent_path", "greedy_descent_path"}
ArgumentObjects == 1..Len(saved)

\* C11: after any call of a core operation, returned or raised, every
\* argument object (grid, input fields, start, goal) holds what it held when
\* the call began, and no returned object is one of the argument objects.
C11_InputsUntouched ==
    (pc \in {"returned", "raised"} /\ fn \in CoreOperations /\ saved # << >>) =>
        /\ Len(heap) >= Len(saved)
        /\ \A r \in ArgumentObjects : heap[r] = saved[r]
        /\ \A k \in 1..Len(rets) : rets[k] \notin ArgumentObjects

\* A wavefront call has returned two arrays that differ from the grid it was
\* given and from each other, the grid holding an Occupied cell.
C11_Witness ==
    /\ pc = "returned"
    /\ fn = "compute_wavefront"
    /\ Len(rets) = 2
    /\ \E x \in Cells(shape) : saved[1][x] = 1
    /\ heap[rets[1]] # saved[1]
    /\ heap[rets[2]] # heap[rets[1]]

\* ------------------------------------------------------------------ C12
\* The attractive call that has returned: its field, goal and grid.
AttractiveReturned == pc = "returned" /\ fn = "compute_attractive_field"
Max(a, b) == IF a >= b THEN a ELSE b

\* C12: whatever cells are Occupied, the "4_point" field and the "manhattan"
\* field are 0.5 * xi * (|drow| + |dcol|)^2, the "8_point" field is
\* 0.5 * xi * max(|drow|, |dcol|)^2, and the value at the goal is 0 in
\* every mode.
C12_AttractiveIgnoresObstacles ==
    AttractiveReturned =>
        LET U == heap[rets[1]]
            gl == saved[2]
            xi == args.scaling_factor
        IN /\ U[gl] = 0
           /\ args.mode \in {"4_point", "manhattan"} =>
                \A x \in Cells(shape) :
                    2 * U[x] = xi * (Abs(x[1] - gl[1]) + Abs(x[2] - gl[2]))
                                  * (Abs(x[1] - gl[1]) + Abs(x[2] - gl[2]))
           /\ args.mode = "8_point" =>
                \A x \in Cells(shape) :
                    2 * U[x] = xi * Max(Abs(x[1] - gl[1]), Abs(x[2] - gl[2]))
                                  * Max(Abs(x[1] - gl[1]), Abs(x[2] - gl[2]))

\* A grid-connectivity call has returned on the 3x3 grid whose goal is walled
\* in: every neighbor of the goal is Occupied, and a Free cell beyond the wall
\* has a positive potential.
C12_Witness ==
    /\ AttractiveReturned
    /\ args.mode \in {"4_point", "8_point"}
    /\ shape = <<3, 3>>
    /\ \A x \in Cells(shape) : Adjacent(shape, 8, saved[2], x) => saved[1][x] = 1
    /\ \E x \in Cells(shape) : saved[1][x] = 0 /\ x # saved[2] /\ heap[rets[1]][x] > 0

====
